---- MODULE Spec2Model ----
(***************************************************************************)
(* Model of the DiffDock docking service                                   *)
(* (diffdock_webhook/diffdock_docking_service.py): the FastAPI handlers    *)
(* start_docking_uniprot and get_job_status, the Celery task dock_job and  *)
(* the coroutines process_docking_request_uniprot and                      *)
(* perform_docking_uniprot it runs; and of download_file and               *)
(* is_pdb_id_downloaded of the batch downloader (src/batch_download.py),   *)
(* each in a specification of its own.                                     *)
(*                                                                         *)
(* Strings the code only compares or copies are TLA+ strings; strings the  *)
(* code takes apart (paths, artifact names, exception messages) are        *)
(* sequences of symbols.  Optional values (a dict key that may be absent,  *)
(* a local that may be unset) are sets with at most one element.           *)
(***************************************************************************)
EXTENDS Integers, Sequences, FiniteSets, TLC

\* ------------------------------------------------------------------ bounds
\* Number of accepted submissions explored.
MaxJobs == 2
\* Size of the Celery worker pool (concurrency of the worker).
NumWorkers == 2

\* -------------------------------------------------------- program constants
\* start_docking_uniprot: os.path.getsize(protein_file_path) < 500
MinPdbSize == 500
\* error_payload["error_code"]
ErrorCode == 500

LOCAL_PROTEIN_DIR == <<".", "/", "local_proteins">>

\* Task ids: Celery draws a fresh uuid per delay(); the k-th accepted
\* submission gets id k.  One id more than can be issued is always unknown.
TaskIds == 1..(MaxJobs + 1)

\* ------------------------------------------------------------------ inputs
\* uniprot_id values of requests, as symbol sequences ("/" is the separator).
UniprotIds == { <<"P12345">>, <<"TINY">>, <<"NONE">>, <<>> }
Ligands == {"CCO", "C1CC"}
CallbackUrls == { <<"http", "://", "client/cb">> }

\* A callback_url without scheme: a str like any other for the request model.
SchemelessUrls == { <<"client/cb">> }

\* httpx sends only to URLs that start with http:// or https://.
HasScheme(url) ==
    Len(url) >= 2 /\ url[1] \in {"http", "https"} /\ url[2] = "://"

\* rdkit's Chem.MolFromSmiles is external: the ligands it parses.
ValidSmiles == {"CCO"}

is_valid_smiles(smiles) == smiles \in ValidSmiles

\* --------------------------------------------------------------- file system
Absent == 0 - 1

\* os.path.join(a, b) for a directory a without trailing separator.
PathJoin(a, b) ==
    IF Len(b) > 0 /\ b[1] = "/" THEN b ELSE a \o <<"/">> \o b

PdbPath(dir, uniprot_id) == PathJoin(dir, uniprot_id \o <<".pdb">>)
PdbGzPath(dir, uniprot_id) == PathJoin(dir, uniprot_id \o <<".pdb.gz">>)

FsPaths ==
    { PdbPath(LOCAL_PROTEIN_DIR, u) : u \in UniprotIds } \cup
    { PdbGzPath(LOCAL_PROTEIN_DIR, u) : u \in UniprotIds }

\* The content of ./local_proteins when the service starts: size in bytes of
\* each file (for a .gz, of its decompressed content), Absent when missing.
InitFs ==
    [ p \in FsPaths |->
        CASE p = PdbGzPath(LOCAL_PROTEIN_DIR, <<"P12345">>) -> 600
          [] p = PdbPath(LOCAL_PROTEIN_DIR, <<"TINY">>) -> 100
          [] p = PdbPath(LOCAL_PROTEIN_DIR, <<>>) -> 600
          [] OTHER -> Absent ]

PathExists(f, p) == p \in DOMAIN f /\ f[p] # Absent

\* unzip_pdb_gz(uniprot_id, source_dir, dest_dir): the file system after the
\* call and the returned path, or found = FALSE for FileNotFoundError.
unzip_pdb_gz(f, uniprot_id, source_dir, dest_dir) ==
    LET pdb_gz_file == PdbGzPath(source_dir, uniprot_id)
        pdb_file == PdbPath(dest_dir, uniprot_id)
    IN  IF ~PathExists(f, pdb_file)
        THEN IF ~PathExists(f, pdb_gz_file)
             THEN [found |-> FALSE, path |-> pdb_file, fs |-> f]
             ELSE [found |-> TRUE, path |-> pdb_file,
                   fs |-> [f EXCEPT ![pdb_file] = f[pdb_gz_file]]]
        ELSE [found |-> TRUE, path |-> pdb_file, fs |-> f]

\* ------------------------------------------------------- uniprot_id_from_path
\* re.search(r'/([^/]+)\.pdb$', path): the group must run from just after a
\* "/" to the final ".pdb" without containing "/", and be non-empty.
LastSlash(path) ==
    LET S == { i \in 1..Len(path) : path[i] = "/" }
    IN  IF S = {} THEN 0 ELSE CHOOSE i \in S : \A k \in S : k <= i

uniprot_id_from_path(path) ==
    LET n == Len(path)
        s == LastSlash(path)
    IN  IF n >= 1 /\ path[n] = ".pdb" /\ s >= 1 /\ s + 1 <= n - 1
        THEN [ok |-> TRUE, id |-> SubSeq(path, s + 1, n - 1)]
        ELSE [ok |-> FALSE, id |-> <<>>]

\* ------------------------------------------------------------------ scores
\* A Python float as the model needs it: NaN, or a number in hundredths
\* (DiffDock names its artifact with a two-decimal confidence).
Digits == {"0", "1", "2", "3", "4", "5", "6", "7", "8", "9"}

DigitVal(c) ==
    CASE c = "0" -> 0 [] c = "1" -> 1 [] c = "2" -> 2 [] c = "3" -> 3
      [] c = "4" -> 4 [] c = "5" -> 5 [] c = "6" -> 6 [] c = "7" -> 7
      [] c = "8" -> 8 [] c = "9" -> 9

RECURSIVE DigitsVal(_)
DigitsVal(s) ==
    IF s = <<>> THEN 0
    ELSE 10 * DigitsVal(SubSeq(s, 1, Len(s) - 1)) + DigitVal(s[Len(s)])

AllDigits(s) == \A i \in 1..Len(s) : s[i] \in Digits

\* float(score_str) on a character sequence: optional sign, then "nan" or a
\* decimal literal with at most one point and at least one digit; anything
\* else raises ValueError (ok = FALSE).  Fractions are read to two places.
ParseFloat(score_str) ==
    LET signed == Len(score_str) > 0 /\ score_str[1] \in {"-", "+"}
        neg == signed /\ score_str[1] = "-"
        body == IF signed THEN Tail(score_str) ELSE score_str
        dots == { i \in 1..Len(body) : body[i] = "." }
        dot == IF dots = {} THEN Len(body) + 1 ELSE CHOOSE i \in dots : TRUE
        ip == SubSeq(body, 1, dot - 1)
        fp == SubSeq(body, dot + 1, Len(body))
        fp2 == SubSeq(fp \o <<"0", "0">>, 1, 2)
        mag == 100 * DigitsVal(ip) + DigitsVal(fp2)
    IN  IF body = <<"n", "a", "n">>
        THEN [ok |-> TRUE, nan |-> TRUE, v |-> 0]
        ELSE IF /\ Cardinality(dots) <= 1
                /\ AllDigits(ip) /\ AllDigits(fp)
                /\ Len(ip) + Len(fp) >= 1
             THEN [ok |-> TRUE, nan |-> FALSE, v |-> IF neg THEN 0 - mag ELSE mag]
             ELSE [ok |-> FALSE, nan |-> FALSE, v |-> 0]

\* The thresholds of perform_docking_uniprot, in hundredths: 0.0 and -1.5.
HighThreshold == 0
ModerateThreshold == 0 - 150

\* The first test written with >= : the score 0.0 would be high.
ConfidenceInclusive(nan, v) ==
    IF ~nan /\ v >= HighThreshold THEN "high confidence"
    ELSE IF ~nan /\ v > ModerateThreshold THEN "moderate confidence"
    ELSE "low confidence"

\* The if/elif/else on docking_score; every comparison with NaN is false.
Confidence(nan, v) ==
    IF ~nan /\ v > HighThreshold THEN "high confidence"
    ELSE IF ~nan /\ v > ModerateThreshold THEN "moderate confidence"
    ELSE "low confidence"

\* --------------------------------------------------------------- exceptions
\* str(e) as a sequence of words, so that the substring test of the except
\* clause is a test on the text.
MsgNonZeroExit == <<"DiffDock", "failed", "with", "return", "code">>
MsgNoComplexDir ==
    <<"Docking", "completed", "but", "no", "pose", "was", "generated", ".",
      "This", "may", "happen", "...">>
MsgNoPoseFile ==
    <<"No", "docking", "pose", "was", "generated", ".", "DiffDock", "may",
      "have", "failed", "...">>
MsgFloat == <<"could", "not", "convert", "string", "to", "float">>
MsgBadPath ==
    <<"Invalid", "protein", "file", "path", ":", "Unable", "to", "extract",
      "UniProt", "ID", ".">>
MsgHttpStatus == <<"Server", "error", "for", "url">>
MsgConnect == <<"All", "connection", "attempts", "failed">>
MsgWorkerLost == <<"Worker", "exited", "prematurely">>
MsgNoScheme ==
    <<"Request", "URL", "is", "missing", "an", "http", "or", "https", "protocol">>

NoPoseNeedle == <<"No", "docking", "pose", "was", "generated">>

\* needle in text
Contains(text, needle) ==
    \E i \in 1..(Len(text) - Len(needle) + 1) :
        SubSeq(text, i, i + Len(needle) - 1) = needle

Exc(type, msg, stderr) == [type |-> type, msg |-> msg, stderr |-> stderr]

\* ------------------------------------------------------ the docking process
\* What the DiffDock subprocess leaves behind: its return code, its stderr,
\* whether <out_dir>/complex_0 exists, and the names matched by
\* complex_0/rank1_confidence*.sdf (the part matched by the star).
ArtifactPrefix == <<"rank1_confidence">>
ArtifactSuffix == <<".sdf">>

ScoreStrs == { <<"0", ".", "4", "2">>, <<"-", "1", ".", "5", "0">>, <<"x">> }

ProcOutcomes ==
    { [returncode |-> 1, stderr |-> "Traceback", complex_dir |-> FALSE, files |-> <<>>],
      [returncode |-> 0, stderr |-> "", complex_dir |-> FALSE, files |-> <<>>],
      [returncode |-> 0, stderr |-> "", complex_dir |-> TRUE, files |-> <<>>] }
    \cup
    { [returncode |-> 0, stderr |-> "", complex_dir |-> TRUE,
       files |-> << ArtifactPrefix \o s \o ArtifactSuffix >>] : s \in ScoreStrs }

\* The pose text read from the artifact.
PoseOf(basename) == <<"pose-of">> \o basename

\* perform_docking_uniprot after proc.communicate() returned `out`: the
\* returned dict (ok) or the raised exception.
DockingAfterExit(uniprot_id, ligand, out) ==
    IF out.returncode # 0
    THEN [ok |-> FALSE, result |-> {},
          exc |-> {Exc("Exception", MsgNonZeroExit, {out.stderr})}]
    ELSE IF ~out.complex_dir
    THEN [ok |-> FALSE, result |-> {}, exc |-> {Exc("Exception", MsgNoComplexDir, {})}]
    ELSE IF out.files = <<>>
    THEN [ok |-> FALSE, result |-> {}, exc |-> {Exc("Exception", MsgNoPoseFile, {})}]
    ELSE LET basename == out.files[1]
             score_str == SubSeq(basename, Len(ArtifactPrefix) + 1,
                                 Len(basename) - Len(ArtifactSuffix))
             docking_score == ParseFloat(score_str)
         IN  IF ~docking_score.ok
             THEN [ok |-> FALSE, result |-> {},
                   exc |-> {Exc("ValueError", MsgFloat, {})}]
             ELSE [ok |-> TRUE, exc |-> {},
                   result |->
                     {[docking_score |-> [nan |-> docking_score.nan, v |-> docking_score.v],
                       docking_confidence |-> Confidence(docking_score.nan, docking_score.v),
                       pose |-> PoseOf(basename),
                       uniprot_id |-> uniprot_id,
                       ligand |-> ligand]}]

\* ----------------------------------------------------------------- payloads
CompletedPayload(docking_result) ==
    [status |-> "completed", result |-> {docking_result}, error_type |-> "",
     uniprot_id |-> <<>>, ligand |-> "", error |-> <<>>, stderr |-> "",
     error_code |-> 0]

\* line 239: the error_type of the failure payload
ErrorType(e) ==
    IF Contains(e.msg, NoPoseNeedle) THEN "no_pose_generated" ELSE "inference_error"

\* line 235: stderr_info
StderrInfo(e) == IF e.stderr # {} THEN CHOOSE x \in e.stderr : TRUE ELSE ""

ErrorPayload(e, uniprot_id, ligand) ==
    [status |-> "failed", result |-> {}, error_type |-> ErrorType(e),
     uniprot_id |-> uniprot_id, ligand |-> ligand, error |-> e.msg,
     stderr |-> StderrInfo(e), error_code |-> ErrorCode]

\* What client.post + raise_for_status can do.
PostOutcomes == {"ok", "http_error", "network_error"}

\* What it does for callback_url: nothing is sent to a URL without scheme,
\* client.post raises UnsupportedProtocol.
PostOutcomesFor(url) == IF HasScheme(url) THEN PostOutcomes ELSE {"bad_url"}

AllPostOutcomes == PostOutcomes \cup {"bad_url"}

PostException(outcome) ==
    IF outcome = "http_error" THEN Exc("HTTPStatusError", MsgHttpStatus, {})
    ELSE IF outcome = "bad_url" THEN Exc("UnsupportedProtocol", MsgNoScheme, {})
    ELSE Exc("ConnectError", MsgConnect, {})

\* -------------------------------------------------------------------- state
VARIABLES
    fs,       \* ./local_proteins: path -> size, Absent when missing
    jobs,     \* jobs[id]: the task message of id and the progress of its run
    queue,    \* the broker's list of task ids not yet received by a worker
    backend,  \* Celery result backend: task id -> stored task meta
    resp,     \* the last HTTP response of start_docking_uniprot
    conf,     \* one run of the score parsing and classification on its own
    dl,       \* one call of batch_download.download_file and the global failed_pdbs
    lk        \* one lookup of a pdb_id in the output directory, both ways

vars == <<fs, jobs, queue, backend, resp, conf, dl, lk>>

\* The variables of the specifications that exercise one function alone; the
\* service leaves them as they are.
pure == <<conf, dl, lk>>

ConfIdle == [phase |-> "idle", score_str |-> <<>>, nan |-> FALSE, v |-> 0,
             confidence |-> ""]

IssuedIds == 1..Len(jobs)

\* Celery's meta for a task id nothing was stored for: state PENDING.
PendingMeta == [status |-> "PENDING", result |-> {}, exc |-> {}]

NoResp == [code |-> 0, task_id |-> 0, detail |-> <<>>]

ServiceInit ==
    /\ fs = InitFs
    /\ jobs = <<>>
    /\ queue = <<>>
    /\ backend = [t \in TaskIds |-> PendingMeta]
    /\ resp = NoResp

\* batch_download.py, file types of get_extensions(): 'pdb', 'cif', and
\* 'xml' for the six that are treated like it.
FileTypes == {"pdb", "cif", "xml"}

DlIdle == [pc |-> "idle", pdb_id |-> "", filetype |-> "", depth |-> 0,
           attempt |-> 0, gets |-> [t \in FileTypes |-> 0], fallbacks |-> 0,
           got |-> FALSE, failed_pdbs |-> {}, failed0 |-> {}]

LkIdle == [pc |-> "idle", listing |-> {}, pdb_id |-> <<>>,
           by_set |-> FALSE, by_list |-> FALSE]

Init ==
    /\ ServiceInit
    /\ conf = ConfIdle
    /\ dl = DlIdle
    /\ lk = LkIdle

\* ------------------------------------------------------------------- Submit
\* HTTPException(code, detail)
HttpError(code, detail) == [NoResp EXCEPT !.code = code, !.detail = detail]

\* The file-locating part of start_docking_uniprot: the .pdb that is there,
\* or the one unzip_pdb_gz leaves.
Locate(f, uniprot_id) ==
    LET p0 == PdbPath(LOCAL_PROTEIN_DIR, uniprot_id)
    IN  IF PathExists(f, p0)
        THEN [found |-> TRUE, path |-> p0, fs |-> f]
        ELSE unzip_pdb_gz(f, uniprot_id, LOCAL_PROTEIN_DIR, LOCAL_PROTEIN_DIR)

\* An endpoint without the FileNotFoundError handler's 404: what is not
\* there is reported like a file that is too small.
AdmissionOfFileNo404(f, uniprot_id) ==
    LET uz == Locate(f, uniprot_id)
    IN  IF uz.found /\ uz.fs[uz.path] >= MinPdbSize
        THEN [code |-> 200, detail |-> <<"Docking enqueued">>,
              path |-> uz.path, fs |-> uz.fs]
        ELSE [code |-> 400, detail |-> <<"looks too small", uniprot_id>>,
              path |-> <<>>, fs |-> uz.fs]

\* The checks after the ligand's: 404 when no file is found, 400 when it is
\* too small.
AdmissionOfFile(f, uniprot_id) ==
    LET uz == Locate(f, uniprot_id)
    IN  IF ~uz.found
        THEN [code |-> 404, detail |-> <<"not found", uniprot_id>>,
              path |-> <<>>, fs |-> uz.fs]
        ELSE IF uz.fs[uz.path] < MinPdbSize
        THEN [code |-> 400, detail |-> <<"looks too small", uniprot_id>>,
              path |-> uz.path, fs |-> uz.fs]
        ELSE [code |-> 200, detail |-> <<"Docking enqueued">>,
              path |-> uz.path, fs |-> uz.fs]

\* An endpoint that never looks at the ligand.
AdmissionNoSmiles(f, uniprot_id, ligand) == AdmissionOfFile(f, uniprot_id)

\* An endpoint that looks for the file before it looks at the ligand.
AdmissionFileFirst(f, uniprot_id, ligand) ==
    LET a == AdmissionOfFile(f, uniprot_id)
    IN  IF a.code = 200 /\ ~is_valid_smiles(ligand)
        THEN [code |-> 400, detail |-> <<"Invalid SMILES", ligand>>,
              path |-> <<>>, fs |-> a.fs]
        ELSE a

\* start_docking_uniprot up to the enqueue decision: the response code and
\* detail, the path handed to the task, and the file system it leaves.
Admission(f, uniprot_id, ligand) ==
    IF ~is_valid_smiles(ligand)
    THEN [code |-> 400, detail |-> <<"Invalid SMILES", ligand>>,
          path |-> <<>>, fs |-> f]
    ELSE AdmissionOfFile(f, uniprot_id)

\* The message dock_job.delay(callback_url, protein_file_path, ligand) puts on
\* the broker, with the bookkeeping of its run.
NewJob(callback_url, protein_file_path, ligand) ==
    [callback_url |-> callback_url,
     protein_file_path |-> protein_file_path,
     ligand |-> ligand,
     pc |-> "queued",
     claims |-> 0,
     tmpdir |-> FALSE,
     proc |-> {},
     result |-> {},
     exc |-> {},
     posts |-> <<>>]

\* What the broker holds after delay(): the new id at the tail.
Enqueue(q, id) == Append(q, id)

Submit(uniprot_id, ligand, callback_url) ==
    /\ Len(jobs) < MaxJobs
    /\ LET a == Admission(fs, uniprot_id, ligand)
           id == Len(jobs) + 1
       IN  /\ fs' = a.fs
           /\ IF a.code = 200
              THEN /\ jobs' = Append(jobs, NewJob(callback_url, a.path, ligand))
                   /\ queue' = Enqueue(queue, id)
                   /\ resp' = [code |-> 200, task_id |-> id, detail |-> a.detail]
              ELSE /\ resp' = HttpError(a.code, a.detail)
                   /\ UNCHANGED <<jobs, queue>>
    /\ UNCHANGED <<backend, pure>>

\* ---------------------------------------------------------------- GetStatus
\* dock_job's return value
DispatchRecord(task_id) == [task_id |-> task_id, status |-> "dispatched"]

\* AsyncResult(task_id).status
AsyncResultStatus(meta) == meta.status

\* A status endpoint that answers 404 for every id the backend calls PENDING.
JobViewPendingIs404(task_id) ==
    LET meta == backend[task_id]
        status == AsyncResultStatus(meta)
    IN  [code |-> IF status = "PENDING" THEN 404 ELSE 200,
         task_id |-> task_id, status |-> status,
         result |-> IF status = "SUCCESS" THEN meta.result ELSE {},
         error |-> IF status = "FAILURE" THEN { e.msg : e \in meta.exc } ELSE {}]

\* A status endpoint whose error branch is an `if` on res.result instead of
\* an `elif` on the status: str(res.result) is added for a SUCCESS too.
JobViewUnguarded(task_id) ==
    LET meta == backend[task_id]
        status == AsyncResultStatus(meta)
    IN  [code |-> 200, task_id |-> task_id, status |-> status,
         result |-> IF status = "SUCCESS" THEN meta.result ELSE {},
         error |-> { e.msg : e \in meta.exc } \cup { <<r.status>> : r \in meta.result }]

\* get_job_status: the JSON body (a key is present iff its set is non-empty).
JobView(task_id) ==
    LET meta == backend[task_id]
        status == AsyncResultStatus(meta)
    IN  [code |-> 200, task_id |-> task_id, status |-> status,
         result |-> IF status = "SUCCESS" THEN meta.result ELSE {},
         error |-> IF status = "SUCCESS" THEN {}
                   ELSE IF status = "FAILURE" THEN { e.msg : e \in meta.exc }
                   ELSE {}]

\* The handler only reads the backend: it answers JobView(task_id) and
\* leaves the service as it was.
GetStatus(task_id) ==
    /\ JobView(task_id).code = 200
    /\ UNCHANGED <<fs, jobs, queue, backend, resp, pure>>

\* ------------------------------------------------------------------ workers
Running(j) == j.pc \in {"started", "docking", "post_completed", "post_failed"}

\* Pool processes executing a task.
Busy == Cardinality({ id \in IssuedIds : Running(jobs[id]) })

\* The except clause of process_docking_request_uniprot entered with e, run
\* to its await on the POST of the failure payload, or to the ValueError
\* that uniprot_id_from_path raises out of the coroutine.
EnterExcept(j, e) ==
    IF uniprot_id_from_path(j.protein_file_path).ok
    THEN [j EXCEPT !.pc = "post_failed", !.exc = {e}, !.result = {}]
    ELSE [j EXCEPT !.pc = "raised",
                   !.exc = {Exc("ValueError", MsgBadPath, {})},
                   !.result = {}]

\* The meta Celery stores when dock_job ends: SUCCESS with the return value,
\* FAILURE with the exception that left it.
FinalMeta(task_id, j) ==
    IF j.pc = "raised"
    THEN [status |-> "FAILURE", result |-> {}, exc |-> j.exc]
    ELSE [status |-> "SUCCESS", result |-> {DispatchRecord(task_id)}, exc |-> {}]

Terminal(j) == j.pc \in {"returned", "raised"}

\* The run of task id moved to j: when dock_job ended its locals are gone
\* and the backend holds the outcome.
Settle(id, j) ==
    IF Terminal(j)
    THEN /\ jobs' = [jobs EXCEPT ![id] = [j EXCEPT !.exc = {}, !.result = {}]]
         /\ backend' = [backend EXCEPT ![id] = FinalMeta(id, j)]
    ELSE /\ jobs' = [jobs EXCEPT ![id] = j]
         /\ UNCHANGED backend

\* A broker that delivers without removing the message.
DequeueKeep(q) == q

\* What is left on the broker once a worker received the head message.
Dequeue(q) == Tail(q)

\* An idle pool process receives the next message and enters dock_job.
Claim ==
    /\ queue # <<>>
    /\ Busy < NumWorkers
    /\ LET id == Head(queue)
       IN  Settle(id, [jobs[id] EXCEPT !.claims = @ + 1, !.pc = "started"])
    /\ queue' = Dequeue(queue)
    /\ UNCHANGED <<fs, resp, pure>>

\* dock_job up to the await on the subprocess: uniprot_id_from_path,
\* TemporaryDirectory(), create_subprocess_exec; or the except clause when
\* the path has no id.
StartDocking(id) ==
    /\ id \in IssuedIds
    /\ jobs[id].pc = "started"
    /\ LET j == jobs[id]
           j1 == IF uniprot_id_from_path(j.protein_file_path).ok
                 THEN [j EXCEPT !.pc = "docking", !.tmpdir = TRUE]
                 ELSE EnterExcept(j, Exc("ValueError", MsgBadPath, {}))
       IN  Settle(id, j1)
    /\ UNCHANGED <<fs, queue, resp, pure>>

\* A directory removed by a call at the end of the block, which a raise skips.
ExitWithNoFinally(j, returned) ==
    IF returned THEN [j EXCEPT !.tmpdir = FALSE] ELSE j

\* TemporaryDirectory.__exit__: the with-block is left, by return or by an
\* exception, and the scratch directory is removed.
ExitWith(j, returned) == [j EXCEPT !.tmpdir = FALSE]

ExitKind(out) ==
    IF out.returncode # 0 THEN "nonzero"
    ELSE IF ~out.complex_dir THEN "no_dir"
    ELSE IF out.files = <<>> THEN "no_file"
    ELSE "file"

\* proc.communicate() returns: the rest of perform_docking_uniprot, leaving
\* the with-block (the scratch directory is removed), then either the await
\* on the POST of the completed payload or the except clause.
DockingExit(id, out) ==
    /\ id \in IssuedIds
    /\ jobs[id].pc = "docking"
    /\ LET j == [jobs[id] EXCEPT !.proc = {out}]
           uid == uniprot_id_from_path(j.protein_file_path).id
           d == DockingAfterExit(uid, j.ligand, out)
           left == ExitWith(j, d.ok)
           j1 == IF d.ok
                 THEN [left EXCEPT !.pc = "post_completed", !.result = d.result]
                 ELSE EnterExcept(left, CHOOSE e \in d.exc : TRUE)
       IN  Settle(id, j1)
    /\ UNCHANGED <<fs, queue, resp, pure>>

\* client.post(callback_url, json=payload); response.raise_for_status()
\* with the completed payload.
PostCompleted(id, outcome) ==
    /\ id \in IssuedIds
    /\ jobs[id].pc = "post_completed"
    /\ outcome \in PostOutcomesFor(jobs[id].callback_url)
    /\ LET j == jobs[id]
           payload == CompletedPayload(CHOOSE r \in j.result : TRUE)
           j0 == [j EXCEPT !.posts = Append(@, [payload |-> payload,
                                                outcome |-> outcome])]
           j1 == IF outcome = "ok"
                 THEN [j0 EXCEPT !.pc = "returned"]
                 ELSE EnterExcept(j0, PostException(outcome))
       IN  Settle(id, j1)
    /\ UNCHANGED <<fs, queue, resp, pure>>

\* Without the inner try/except a failed POST would leave the coroutine.
AfterErrorPostUnguarded(j, outcome) ==
    IF outcome = "ok" THEN [j EXCEPT !.pc = "returned"]
    ELSE [j EXCEPT !.pc = "raised", !.exc = {PostException(outcome)}]

\* With a retry loop the except clause would POST the failure payload again
\* until it is accepted (of repeated attempts the log keeps the last).
AfterErrorPostRetry(j, outcome) ==
    LET n == Len(j.posts)
        again == n >= 2 /\ j.posts[n - 1].payload = j.posts[n].payload
    IN  IF outcome = "ok" THEN [j EXCEPT !.pc = "returned"]
        ELSE IF again
             THEN [j EXCEPT !.posts = SubSeq(@, 1, n - 2) \o <<j.posts[n]>>]
             ELSE j

\* What the except clause does when the POST of the failure payload ended
\* with `outcome`: the inner try/except swallows it.
AfterErrorPost(j, outcome) == [j EXCEPT !.pc = "returned"]

\* The POST of the failure payload in the except clause.
PostFailed(id, outcome) ==
    /\ id \in IssuedIds
    /\ jobs[id].pc = "post_failed"
    /\ outcome \in PostOutcomesFor(jobs[id].callback_url)
    /\ LET j == jobs[id]
           e == CHOOSE x \in j.exc : TRUE
           uid == uniprot_id_from_path(j.protein_file_path).id
           payload == ErrorPayload(e, uid, j.ligand)
           j0 == [j EXCEPT !.posts = Append(@, [payload |-> payload,
                                                outcome |-> outcome])]
       IN  Settle(id, AfterErrorPost(j0, outcome))
    /\ UNCHANGED <<fs, queue, resp, pure>>

Next ==
    \/ \E u \in UniprotIds, l \in Ligands, c \in CallbackUrls : Submit(u, l, c)
    \/ \E t \in TaskIds : GetStatus(t)
    \/ Claim
    \/ \E id \in TaskIds : StartDocking(id)
    \/ \E id \in TaskIds, out \in ProcOutcomes : DockingExit(id, out)
    \/ \E id \in TaskIds, o \in AllPostOutcomes : PostCompleted(id, o)
    \/ \E id \in TaskIds, o \in AllPostOutcomes : PostFailed(id, o)

Spec == Init /\ [][Next]_vars

\* A running Celery worker keeps receiving messages; the subprocess ends;
\* each POST returns or raises (httpx applies its default timeout).
WorkerStep ==
    \E id \in TaskIds :
        \/ StartDocking(id)
        \/ \E out \in ProcOutcomes : DockingExit(id, out)
        \/ \E o \in AllPostOutcomes : PostCompleted(id, o)
        \/ \E o \in AllPostOutcomes : PostFailed(id, o)

Fairness == WF_vars(Claim) /\ WF_vars(WorkerStep)

FairSpec == Spec /\ Fairness

\* One pool process is killed while it executes task id (SIGKILL, out of
\* memory): the worker's main process notices the lost child and stores
\* FAILURE with WorkerLostError for the task.  Nothing of the run's own code
\* executes, so no POST is made and a scratch directory stays behind.
PoolProcessLost(id) ==
    /\ id \in IssuedIds
    /\ Running(jobs[id])
    /\ Settle(id, [jobs[id] EXCEPT !.pc = "raised",
                                   !.exc = {Exc("WorkerLostError", MsgWorkerLost, {})},
                                   !.result = {}])
    /\ UNCHANGED <<fs, queue, resp, pure>>

\* The whole worker is killed (main process and pool, or its host) while it
\* executes tasks, and is started again: their messages were acknowledged
\* when received, nothing is stored for them and nothing runs them again.
WorkerLost ==
    /\ \E id \in IssuedIds : Running(jobs[id])
    /\ jobs' = [id \in IssuedIds |->
                  IF Running(jobs[id]) THEN [jobs[id] EXCEPT !.pc = "lost"]
                  ELSE jobs[id]]
    /\ UNCHANGED <<fs, queue, backend, resp, pure>>

CrashNext ==
    \/ Next
    \/ \E id \in TaskIds : PoolProcessLost(id)
    \/ WorkerLost

\* The service with worker processes that can be killed; the worker that
\* is started again keeps receiving and running tasks.
FairCrashSpec == Init /\ [][CrashNext]_vars /\ Fairness

\* The service with clients that also send a callback_url without scheme.
AnyUrlNext ==
    \/ Next
    \/ \E u \in UniprotIds, l \in Ligands, c \in SchemelessUrls : Submit(u, l, c)

AnyUrlSpec == Init /\ [][AnyUrlNext]_vars

\* ----------------------------------------------- the admission on its own
\* File sizes around the limit of start_docking_uniprot.
AdmitSizes == {Absent, MinPdbSize - 1, MinPdbSize}

\* The contents of ./local_proteins explored: every id with no file, a .pdb,
\* a .pdb.gz or both, each just below or at the size limit (a .gz next to a
\* .pdb that is large enough is never read and is left out).
AdmitFs ==
    { f \in [FsPaths -> AdmitSizes] :
        \A u \in UniprotIds :
            f[PdbPath(LOCAL_PROTEIN_DIR, u)] = MinPdbSize =>
                f[PdbGzPath(LOCAL_PROTEIN_DIR, u)] = Absent }

AdmitInit ==
    /\ fs \in AdmitFs
    /\ jobs = <<>>
    /\ queue = <<>>
    /\ backend = [t \in TaskIds |-> PendingMeta]
    /\ resp = NoResp
    /\ conf = ConfIdle
    /\ dl = DlIdle
    /\ lk = LkIdle

\* Requests only: no worker runs.
AdmitNext ==
    \E u \in UniprotIds, l \in Ligands, c \in CallbackUrls : Submit(u, l, c)

AdmitSpec == AdmitInit /\ [][AdmitNext]_vars

\* ------------------------------------------- the classification on its own
\* Longest artifact score string explored.
MaxScoreLen == 5

ScoreAlphabet == {"-", ".", "0", "1", "5"}

\* The score strings explored: every string over the alphabet up to the
\* bound with at most two characters after a point (the values ParseFloat
\* reads exactly), and "nan".
ScoreInputs ==
    { s \in UNION { [1..n -> ScoreAlphabet] : n \in 1..MaxScoreLen } :
        \A i \in 1..Len(s) : s[i] = "." => Len(s) - i <= 2 }
    \cup { <<"n", "a", "n">> }

ConfInit ==
    /\ ServiceInit
    /\ conf \in { [ConfIdle EXCEPT !.phase = "input", !.score_str = s] : s \in ScoreInputs }
    /\ dl = DlIdle
    /\ lk = LkIdle

\* Lines 181-189 of perform_docking_uniprot on score_str: float() and the
\* if/elif/else, or the ValueError of float().
Classify ==
    /\ conf.phase = "input"
    /\ LET docking_score == ParseFloat(conf.score_str)
       IN  conf' = IF docking_score.ok
                   THEN [conf EXCEPT !.phase = "classified",
                                     !.nan = docking_score.nan,
                                     !.v = docking_score.v,
                                     !.confidence = Confidence(docking_score.nan,
                                                               docking_score.v)]
                   ELSE [conf EXCEPT !.phase = "value_error"]
    /\ UNCHANGED <<fs, jobs, queue, backend, resp, dl, lk>>

ConfNext == Classify

ConfSpec == ConfInit /\ [][ConfNext]_vars

\* ------------------------------------------ batch_download.download_file
\* for attempt in range(3)
MaxAttempts == 3

PdbIds == {"1abc", "2xyz"}

\* requests.head(url) in file_type_available, called without timeout: a
\* status, an exception, or no answer at all.
HeadOutcomes == {"status_200", "status_404", "raises", "no_answer"}

file_type_available(outcome) == outcome = "status_200"

\* requests.get(url, stream=True, timeout=30), raise_for_status and the
\* writing of the file: done, a RequestException (status, connection,
\* timeout), or an OSError of open/write, which the loop does not catch.
GetOutcomes == {"ok", "request_exception", "os_error"}

DownloadInit ==
    /\ ServiceInit
    /\ conf = ConfIdle
    /\ dl \in { [DlIdle EXCEPT !.pc = "head", !.pdb_id = p, !.filetype = t,
                               !.depth = 1, !.failed_pdbs = F, !.failed0 = F] :
                  p \in PdbIds, t \in FileTypes, F \in SUBSET PdbIds }
    /\ lk = LkIdle

\* failed_pdbs.add(pdb_id)
AddFailed(d) == [d EXCEPT !.failed_pdbs = @ \cup {d.pdb_id}]

\* download_file from its entry through file_type_available: on to the GET
\* loop, into the nested download_file(pdb_id, 'cif', outdir), or out.
CheckAvailable(outcome) ==
    /\ dl.pc = "head"
    /\ dl' = IF outcome = "no_answer" THEN [dl EXCEPT !.pc = "blocked"]
             ELSE IF outcome = "raises" THEN [dl EXCEPT !.pc = "raised"]
             ELSE IF file_type_available(outcome)
             THEN [dl EXCEPT !.pc = "get", !.attempt = 0]
             ELSE IF dl.filetype = "pdb"
             THEN [dl EXCEPT !.filetype = "cif", !.depth = @ + 1,
                             !.fallbacks = @ + 1]
             ELSE [AddFailed(dl) EXCEPT !.pc = "returned"]
    /\ UNCHANGED <<fs, jobs, queue, backend, resp, conf, lk>>

\* One pass of the loop body.
GetAttempt(outcome) ==
    /\ dl.pc = "get"
    /\ LET d == [dl EXCEPT !.gets[dl.filetype] = @ + 1]
       IN  dl' = IF outcome = "ok" THEN [d EXCEPT !.got = TRUE, !.pc = "returned"]
                 ELSE IF outcome = "os_error" THEN [d EXCEPT !.pc = "raised"]
                 ELSE IF d.attempt + 1 < MaxAttempts
                 THEN [d EXCEPT !.attempt = @ + 1]
                 ELSE [AddFailed(d) EXCEPT !.attempt = @ + 1, !.pc = "returned"]
    /\ UNCHANGED <<fs, jobs, queue, backend, resp, conf, lk>>

DownloadNext ==
    \/ \E o \in HeadOutcomes : CheckAvailable(o)
    \/ \E o \in GetOutcomes : GetAttempt(o)

\* The interpreter keeps executing download_file: each call it makes is
\* made, and ends the way the network lets it end.
DownloadFairSpec ==
    DownloadInit /\ [][DownloadNext]_vars /\ WF_vars(DownloadNext)

\* ------------------------------------- batch_download.is_pdb_id_downloaded
\* Largest number of files in the output directory explored.
MaxFiles == 4

\* File names and ids are sequences of characters.  The characters in the
\* order of their code points, which is the order Python compares str by.
CodeOrder ==
    <<"-", ".", "0", "1", "2", "3", "4", "5", "6", "7", "8", "9", "A",
      "B", "C", "D", "E", "F", "G", "H", "I", "J", "K", "L", "M", "N",
      "O", "P", "Q", "R", "S", "T", "U", "V", "W", "X", "Y", "Z", "_",
      "a", "b", "c", "d", "e", "f", "g", "h", "i", "j", "k", "l", "m",
      "n", "o", "p", "q", "r", "s", "t", "u", "v", "w", "x", "y", "z">>

Ord(c) == CHOOSE i \in 1..Len(CodeOrder) : CodeOrder[i] = c

\* a < b for two str
StrLess(a, b) ==
    LET n == IF Len(a) < Len(b) THEN Len(a) ELSE Len(b)
        D == { i \in 1..n : a[i] # b[i] }
    IN  IF D = {} THEN Len(a) < Len(b)
        ELSE LET i == CHOOSE k \in D : \A m \in D : k <= m
             IN  Ord(a[i]) < Ord(b[i])

\* str.lower() of one character
LowerChar(c) ==
    IF Ord(c) >= Ord("A") /\ Ord(c) <= Ord("Z")
    THEN CodeOrder[Ord(c) + (Ord("a") - Ord("A"))]
    ELSE c

Lower(s) == [i \in 1..Len(s) |-> LowerChar(s[i])]

\* File names that may be in the output directory.
FileNames ==
    { <<"p", "d", "b", "1", "a", "b", "c", ".", "e", "n", "t", ".", "g", "z">>,
      <<"p", "d", "b", "1", "a", "b", "c", ".", "c", "i", "f", ".", "g", "z">>,
      <<"p", "d", "b", "2", "X", "Y", "Z", ".", "e", "n", "t", ".", "g", "z">>,
      <<"p", "d", "b", "1", "a", "b", ".", "x", "m", "l", ".", "g", "z">>,
      <<"1", "a", "b", "c", ".", "e", "n", "t", ".", "g", "z">>,
      <<"p", "d", "b", "3", "d", "e", "f", ".", "e", "n", "t">>,
      <<"p", "d", "b", ".", "g", "z">>,
      <<"p", "d", "b", "1", "a", "b", "c", "-", "s", "f", ".", "c", "i", "f", ".", "g", "z">>,
      <<"p", "d", "b", "9", "z", "z", "z", "_", "m", "r", ".", "s", "t", "r", ".", "g", "z">> }

\* pdb_id values read from the input file.
LookupIds ==
    { <<"1", "a", "b", "c">>,
      <<"2", "x", "y", "z">>,
      <<"2", "X", "Y", "Z">>,
      <<>>,
      <<"1", "a", "b">>,
      <<"1", "a", "b", "d">>,
      <<"9", "z", "z", "z">>,
      <<"3", "d", "e", "f">> }

startswith(s, prefix) ==
    Len(s) >= Len(prefix) /\ SubSeq(s, 1, Len(prefix)) = prefix

endswith(s, suffix) ==
    Len(s) >= Len(suffix) /\ SubSeq(s, Len(s) - Len(suffix) + 1, Len(s)) = suffix

\* filename[3:].split('.')[0].lower()
IdPart(filename) ==
    LET rest == SubSeq(filename, 4, Len(filename))
        dots == { i \in 1..Len(rest) : rest[i] = "." }
        first == IF dots = {} THEN Len(rest) + 1
                 ELSE CHOOSE i \in dots : \A k \in dots : i <= k
    IN  Lower(SubSeq(rest, 1, first - 1))

\* The loop over os.listdir(directory) that both builders run.
IdParts(listing) ==
    { IdPart(filename) :
        filename \in { f \in listing : startswith(f, <<"p", "d", "b">>)
                                        /\ endswith(f, <<".", "g", "z">>) } }

\* sorted(pdb_ids)
RECURSIVE sorted(_)
sorted(S) ==
    IF S = {} THEN <<>>
    ELSE LET least == CHOOSE x \in S : \A y \in S : y = x \/ StrLess(x, y)
         IN  <<least>> \o sorted(S \ {least})

build_sorted_existing_pdb_ids(listing) ==
    [kind |-> "list", ids |-> sorted(IdParts(listing))]

build_existing_pdb_id_set(listing) ==
    [kind |-> "set", ids |-> IdParts(listing)]

\* bisect.bisect_right: the search that steps over equal elements.
RECURSIVE bisect_right(_, _, _, _)
bisect_right(a, x, lo, hi) ==
    IF lo < hi
    THEN LET mid == (lo + hi) \div 2
         IN  IF ~StrLess(x, a[mid + 1])
             THEN bisect_right(a, x, mid + 1, hi)
             ELSE bisect_right(a, x, lo, mid)
    ELSE lo

\* bisect.bisect_left(a, x) with lo = 0, hi = len(a); a is indexed from 0
\* in the code and from 1 here.
RECURSIVE bisect_left(_, _, _, _)
bisect_left(a, x, lo, hi) ==
    IF lo < hi
    THEN LET mid == (lo + hi) \div 2
         IN  IF StrLess(a[mid + 1], x)
             THEN bisect_left(a, x, mid + 1, hi)
             ELSE bisect_left(a, x, lo, mid)
    ELSE lo

is_pdb_id_downloaded(pdb_id, downloaded_pdb_ids) ==
    IF downloaded_pdb_ids.kind = "set"
    THEN pdb_id \in downloaded_pdb_ids.ids
    ELSE LET a == downloaded_pdb_ids.ids
             index == bisect_left(a, pdb_id, 0, Len(a))
         IN  index < Len(a) /\ a[index + 1] = pdb_id

LookupInit ==
    /\ ServiceInit
    /\ conf = ConfIdle
    /\ dl = DlIdle
    /\ lk \in { [LkIdle EXCEPT !.pc = "scan", !.listing = L, !.pdb_id = p] :
                  L \in { X \in SUBSET FileNames : Cardinality(X) <= MaxFiles },
                  p \in LookupIds }

\* main, lines 177-180 and 211, run once with --use_set and once without on
\* the same directory and pdb_id.
Lookup ==
    /\ lk.pc = "scan"
    /\ lk' = [lk EXCEPT
                !.pc = "done",
                !.by_set = is_pdb_id_downloaded(lk.pdb_id,
                               build_existing_pdb_id_set(lk.listing)),
                !.by_list = is_pdb_id_downloaded(lk.pdb_id,
                                build_sorted_existing_pdb_ids(lk.listing))]
    /\ UNCHANGED <<fs, jobs, queue, backend, resp, conf, dl>>

LookupNext == Lookup

LookupSpec == LookupInit /\ [][LookupNext]_vars

\* ------------------------------------------------------------------- claims
TerminalStatuses == {"SUCCESS", "FAILURE"}

ExitOf(j) == IF j.proc = {} THEN "none" ELSE ExitKind(CHOOSE o \in j.proc : TRUE)

CompletedPosts(j) == { i \in 1..Len(j.posts) : j.posts[i].payload.status = "completed" }
FailedPosts(j) == { i \in 1..Len(j.posts) : j.posts[i].payload.status = "failed" }

C2_ComputeFailureIsFailed ==
    \A id \in IssuedIds :
        Terminal(jobs[id]) =>
            /\ ExitOf(jobs[id]) \in {"nonzero", "no_dir", "no_file"} =>
                   /\ JobView(id).status = "FAILURE"
                   /\ JobView(id).error # {}
            /\ JobView(id).status = "SUCCESS" => CompletedPosts(jobs[id]) # {}

\* The inputs of a run other than what the callback endpoint answered.
RunInputs(j) ==
    [callback_url |-> j.callback_url, protein_file_path |-> j.protein_file_path,
     ligand |-> j.ligand, proc |-> j.proc]

\* The status view without the task id it echoes.
ViewShape(id) ==
    LET v == JobView(id)
    IN  [status |-> v.status, result |-> { r.status : r \in v.result },
         error |-> v.error]

\* C3: two finished jobs with the same request and the same docking
\* outcome have the same status view, whatever their callback POSTs
\* returned.
C3_ViewIndependentOfDelivery ==
    \A a, b \in IssuedIds :
        (/\ Terminal(jobs[a])
         /\ Terminal(jobs[b])
         /\ RunInputs(jobs[a]) = RunInputs(jobs[b]))
        => ViewShape(a) = ViewShape(b)

C3_Witness ==
    \E a, b \in IssuedIds :
        /\ Terminal(jobs[a])
        /\ Terminal(jobs[b])
        /\ RunInputs(jobs[a]) = RunInputs(jobs[b])
        /\ \A i \in 1..Len(jobs[a].posts) : jobs[a].posts[i].outcome = "ok"
        /\ \E i \in 1..Len(jobs[b].posts) : jobs[b].posts[i].outcome # "ok"
        /\ jobs[b].posts[Len(jobs[b].posts)].outcome # "ok"
        /\ JobView(a).status = "SUCCESS"

\* C4: at most one POST is issued to the callback URL per job.
C4_AtMostOnePost ==
    \A id \in IssuedIds : Len(jobs[id].posts) <= 1

\* Ids on the broker, with multiplicity.
QueueCount(id) == Cardinality({ i \in 1..Len(queue) : queue[i] = id })

\* C5: every job leaves the queue at most once: a job is on the broker
\* exactly once while queued and never again after a worker received it,
\* so no job is run by two pool processes.
C5_ClaimedOnce ==
    \A id \in IssuedIds :
        /\ jobs[id].claims <= 1
        /\ jobs[id].pc = "queued" <=> jobs[id].claims = 0
        /\ QueueCount(id) = (IF jobs[id].claims = 0 THEN 1 ELSE 0)

C5_Witness ==
    \E a, b \in IssuedIds :
        /\ a # b
        /\ Running(jobs[a])
        /\ Running(jobs[b])
        /\ jobs[a].claims = 1
        /\ jobs[b].claims = 1

\* C6: for a job id just returned by Submit and not yet received by a
\* worker, the status view is a 200 answer with status PENDING.
C6_QueuedIsPending ==
    \A id \in IssuedIds :
        jobs[id].pc = "queued" =>
            /\ JobView(id).code = 200
            /\ JobView(id).status = "PENDING"
            /\ JobView(id).result = {}
            /\ JobView(id).error = {}

C6_Witness ==
    /\ resp.code = 200
    /\ resp.task_id \in IssuedIds
    /\ jobs[resp.task_id].pc = "queued"
    /\ JobView(resp.task_id).status = "PENDING"

\* C7: the status view of a task id no Submit returned is a 404 answer.
C7_UnknownIdIs404 ==
    \A t \in TaskIds \ IssuedIds : JobView(t).code = 404

\* C8: a status view has a result exactly when its status is SUCCESS and
\* an error exactly when its status is FAILURE; never both, and neither
\* for a non-terminal status.
C8_ResultErrorMatchStatus ==
    \A t \in TaskIds :
        LET v == JobView(t)
        IN  /\ v.result # {} <=> v.status = "SUCCESS"
            /\ v.error # {} <=> v.status = "FAILURE"
            /\ ~(v.result # {} /\ v.error # {})
            /\ v.status \notin TerminalStatuses => v.result = {} /\ v.error = {}

C8_Witness ==
    \E a, b, c \in TaskIds :
        /\ JobView(a).status = "SUCCESS" /\ JobView(a).result # {}
        /\ JobView(b).status = "FAILURE" /\ JobView(b).error # {}
        /\ JobView(c).status = "PENDING"

\* C9: the result in the status view of a SUCCESS job whose docking
\* returned a result is that docking result, the one POSTed in the
\* completed payload of the job.
C9_ViewResultIsDockingResult ==
    \A id \in IssuedIds :
        (JobView(id).status = "SUCCESS" /\ CompletedPosts(jobs[id]) # {}) =>
            \E i \in CompletedPosts(jobs[id]) :
                \A r \in JobView(id).result :
                    /\ DOMAIN r = DOMAIN (CHOOSE d \in jobs[id].posts[i].payload.result : TRUE)
                    /\ {r} = jobs[id].posts[i].payload.result

ErrorTypesPosted(j) == { j.posts[i].payload.error_type : i \in FailedPosts(j) }

\* C10: the error_type reported for a non-zero exit is never the one
\* reported for a zero exit without matching artifact, which is
\* no_pose_generated.
C10_ExitKindsDistinct ==
    /\ \A a \in IssuedIds :
          /\ ExitOf(jobs[a]) = "nonzero" =>
                 "no_pose_generated" \notin ErrorTypesPosted(jobs[a])
          /\ ExitOf(jobs[a]) \in {"no_dir", "no_file"} =>
                 ErrorTypesPosted(jobs[a]) \subseteq {"no_pose_generated"}
    /\ \A a, b \in IssuedIds :
          (ExitOf(jobs[a]) = "nonzero" /\ ExitOf(jobs[b]) \in {"no_dir", "no_file"})
          => ErrorTypesPosted(jobs[a]) \cap ErrorTypesPosted(jobs[b]) = {}

\* C11: both zero-exit failure shapes carry error_type no_pose_generated in
\* the failure payload: complex_0 missing, and complex_0 without a file
\* matching rank1_confidence*.sdf.
C11_ZeroExitShapesAreNoPose ==
    \A id \in IssuedIds :
        ExitOf(jobs[id]) \in {"no_dir", "no_file"} =>
            \A i \in FailedPosts(jobs[id]) :
                jobs[id].posts[i].payload.error_type = "no_pose_generated"

ConfidenceClasses == {"high confidence", "moderate confidence", "low confidence"}

\* C12: the class is decided by the parsed score alone (in hundredths):
\* above 0.0 high, above -1.5 and up to 0.0 moderate, -1.5 and below low,
\* so 0.0 is moderate and -1.5 is low; every parsed score, NaN included,
\* gets exactly one of the three classes.
C12_ConfidenceByThresholds ==
    conf.phase = "classified" =>
        /\ conf.confidence \in ConfidenceClasses
        /\ (~conf.nan /\ conf.v > 0) => conf.confidence = "high confidence"
        /\ (~conf.nan /\ conf.v > 0 - 150 /\ conf.v <= 0) =>
               conf.confidence = "moderate confidence"
        /\ (~conf.nan /\ conf.v <= 0 - 150) => conf.confidence = "low confidence"
        /\ conf.score_str \in { <<"0", ".", "0">>, <<"0">>, <<"-", "0">> } =>
               conf.confidence = "moderate confidence"
        /\ conf.score_str \in { <<"-", "1", ".", "5">>, <<"-", "1", ".", "5", "0">> } =>
               conf.confidence = "low confidence"

C12_Witness ==
    /\ conf.phase = "classified"
    /\ conf.score_str = <<"-", "1", ".", "5", "0">>
    /\ conf.v = 0 - 150
    /\ conf.confidence = "low confidence"

\* C13: the scratch directory exists only while perform_docking_uniprot is
\* inside its with-block; once it returned or raised, on any exit path, the
\* directory is gone.
C13_ScratchGoneAfterDocking ==
    \A id \in IssuedIds : jobs[id].tmpdir => jobs[id].pc = "docking"

C13_Witness ==
    \E id \in IssuedIds :
        /\ ExitOf(jobs[id]) = "file"
        /\ jobs[id].pc = "post_failed"
        /\ jobs[id].posts = <<>>
        /\ ~jobs[id].tmpdir

\* C14: a Submit whose ligand is not valid SMILES answers 400 (Invalid SMILES),
\* returns no task id and leaves the jobs, the broker queue and the file
\* system as they were, whatever uniprot_id and callback_url it carries.
C14_InvalidLigandRejected ==
    [][\A uniprot_id \in UniprotIds, callback_url \in CallbackUrls,
          ligand \in Ligands \ ValidSmiles :
            Submit(uniprot_id, ligand, callback_url) =>
                /\ resp'.code = 400
                /\ resp'.detail = <<"Invalid SMILES", ligand>>
                /\ resp'.task_id = 0
                /\ jobs' = jobs /\ queue' = queue /\ fs' = fs]_vars

C14_Witness ==
    /\ resp.code = 400
    /\ resp.detail = <<"Invalid SMILES", "C1CC">>
    /\ Len(jobs) = 1
    /\ ~PathExists(fs, PdbPath(LOCAL_PROTEIN_DIR, <<"NONE">>))

\* C15: a Submit whose callback_url is not a well-formed URL (here: has no
\* scheme) is refused and creates no job: no 200, no task id, jobs and queue
\* as they were.
C15_MalformedUrlRejected ==
    [][\A uniprot_id \in UniprotIds, ligand \in Ligands,
          callback_url \in SchemelessUrls :
            Submit(uniprot_id, ligand, callback_url) =>
                /\ resp'.code # 200
                /\ resp'.task_id = 0
                /\ jobs' = jobs /\ queue' = queue]_vars

\* Neither <uniprot_id>.pdb nor <uniprot_id>.pdb.gz is in LOCAL_PROTEIN_DIR.
Unresolvable(f, uniprot_id) ==
    /\ ~PathExists(f, PdbPath(LOCAL_PROTEIN_DIR, uniprot_id))
    /\ ~PathExists(f, PdbGzPath(LOCAL_PROTEIN_DIR, uniprot_id))

\* C16 as stated: a Submit whose uniprot_id resolves to no structure file
\* answers 404 and creates no job.
C16_UnresolvableIs404 ==
    [][\A uniprot_id \in UniprotIds, ligand \in Ligands,
          callback_url \in CallbackUrls :
            (Unresolvable(fs, uniprot_id)
                /\ Submit(uniprot_id, ligand, callback_url)) =>
                /\ resp'.code = 404
                /\ jobs' = jobs /\ queue' = queue]_vars

\* C16 amended: a Submit whose uniprot_id resolves to no structure file
\* creates no job and returns no task id; it answers 404 when its ligand is
\* valid SMILES, and 400 (Invalid SMILES) when it is not, because the ligand
\* is checked first.
C16_UnresolvableRejected ==
    [][\A uniprot_id \in UniprotIds, ligand \in Ligands,
          callback_url \in CallbackUrls :
            (Unresolvable(fs, uniprot_id)
                /\ Submit(uniprot_id, ligand, callback_url)) =>
                /\ jobs' = jobs /\ queue' = queue /\ fs' = fs
                /\ resp'.task_id = 0
                /\ IF is_valid_smiles(ligand)
                   THEN /\ resp'.code = 404
                        /\ resp'.detail = <<"not found", uniprot_id>>
                   ELSE /\ resp'.code = 400
                        /\ resp'.detail = <<"Invalid SMILES", ligand>>]_vars

C16_Witness ==
    /\ resp.code = 404
    /\ resp.detail = <<"not found", <<"NONE">>>>
    /\ Unresolvable(fs, <<"NONE">>)
    /\ Len(jobs) = 1

PostExceptionTypes == { PostException(o).type : o \in AllPostOutcomes \ {"ok"} }

\* C17: a callback POST that fails (network error or non-2xx answer, with
\* the completed or the failed payload) never leaves the job's execution as
\* an exception: the run of such a job goes on to return, the task is
\* stored as SUCCESS, and no stored task error is a POST exception.
C17_PostFailureNeverPropagates ==
    \A id \in IssuedIds :
        /\ \A e \in backend[id].exc : e.type \notin PostExceptionTypes
        /\ (\E i \in 1..Len(jobs[id].posts) : jobs[id].posts[i].outcome # "ok") =>
               /\ jobs[id].pc \in {"post_failed", "returned"}
               /\ jobs[id].pc = "returned" =>
                      /\ backend[id].status = "SUCCESS"
                      /\ JobView(id).error = {}

C17_Witness ==
    \E id \in IssuedIds :
        /\ Len(jobs[id].posts) = 2
        /\ jobs[id].posts[1].payload.status = "completed"
        /\ jobs[id].posts[1].outcome = "network_error"
        /\ jobs[id].posts[2].payload.status = "failed"
        /\ jobs[id].posts[2].outcome = "http_error"
        /\ backend[id].status = "SUCCESS"

\* The lifecycle state of a job, read off the position of its run.
Phase(j) ==
    IF j.pc = "queued" THEN "Queued"
    ELSE IF j.pc = "returned" THEN "Succeeded"
    ELSE IF j.pc = "raised" THEN "Failed"
    ELSE "Running"

AllowedTransitions ==
    { <<"Queued", "Running">>, <<"Running", "Succeeded">>, <<"Running", "Failed">> }

\* C19: in every step (of a worker, of a POST, of Submit, of GetStatus) each
\* job keeps its lifecycle state or moves Queued -> Running,
\* Running -> Succeeded or Running -> Failed; so a Succeeded or Failed job
\* never changes state again, and its status view stays as it is.
C19_MonotonicTransitions ==
    [][\A id \in IssuedIds :
          /\ \/ Phase(jobs'[id]) = Phase(jobs[id])
             \/ <<Phase(jobs[id]), Phase(jobs'[id])>> \in AllowedTransitions
          /\ Phase(jobs[id]) \in {"Succeeded", "Failed"} =>
                 JobView(id)' = JobView(id)]_vars

C19_Witness ==
    /\ Len(jobs) = 2
    /\ { Phase(jobs[id]) : id \in IssuedIds } = {"Succeeded", "Failed"}
    /\ \A id \in IssuedIds : jobs[id].claims = 1

\* The worker process executing job id terminated before dock_job ended.
Crashed(id) ==
    \/ jobs[id].pc = "lost"
    \/ \E e \in backend[id].exc : e.type = "WorkerLostError"

\* C18: a job whose worker terminated in the middle of its execution is
\* eventually shown as failed, with the worker's loss as its error.
C18_CrashedJobMarkedFailed ==
    \A id \in TaskIds :
        (id \in IssuedIds /\ Crashed(id)) ~>
            (JobView(id).status = "FAILURE" /\ JobView(id).error = {MsgWorkerLost})

\* C20: a job for which a 'completed' payload was POSTed never also has a
\* 'failed' payload POSTed, also when the completed POST raised or was
\* answered non-2xx.
C20_CompletedExcludesFailed ==
    \A id \in IssuedIds :
        CompletedPosts(jobs[id]) = {} \/ FailedPosts(jobs[id]) = {}

\* C21: every job a worker executed to the end of its task has at least
\* one POST attempt to its callback_url: no run of
\* process_docking_request_uniprot ends without a callback attempt.
C21_ExecutedJobPosts ==
    \A id \in IssuedIds :
        Terminal(jobs[id]) => jobs[id].posts # <<>>

\* C22: start_docking_uniprot enqueues a job exactly when the ligand is valid
\* SMILES, a structure file is found (as .pdb, or as .pdb.gz to unzip) and
\* the file has at least 500 bytes; otherwise the answer is that of the
\* first failing check in this order (400 Invalid SMILES, 404 not found,
\* 400 too small) and nothing is enqueued.
C22_AdmissionOrder ==
    [][\A uniprot_id \in UniprotIds, ligand \in Ligands,
          callback_url \in CallbackUrls :
            Submit(uniprot_id, ligand, callback_url) =>
                LET pdb == PdbPath(LOCAL_PROTEIN_DIR, uniprot_id)
                    gz == PdbGzPath(LOCAL_PROTEIN_DIR, uniprot_id)
                    valid == ligand \in ValidSmiles
                    found == fs[pdb] # Absent \/ fs[gz] # Absent
                    size == IF fs[pdb] # Absent THEN fs[pdb] ELSE fs[gz]
                    all == valid /\ found /\ size >= 500
                    id == Len(jobs) + 1
                IN  /\ ~valid =>
                        resp'.code = 400 /\ resp'.detail[1] = "Invalid SMILES"
                    /\ (valid /\ ~found) =>
                        resp'.code = 404 /\ resp'.detail[1] = "not found"
                    /\ (valid /\ found /\ size < 500) =>
                        resp'.code = 400 /\ resp'.detail[1] = "looks too small"
                    /\ all <=> (Len(jobs') = id /\ queue' = Append(queue, id))
                    /\ all => (resp'.code = 200 /\ resp'.task_id = id)
                    /\ ~all => (jobs' = jobs /\ queue' = queue /\ resp'.task_id = 0)]_vars

\* A request that failed more than one check: its ligand is invalid and no
\* structure file exists for any id.
C22_Witness ==
    /\ resp.code = 400
    /\ resp.detail = <<"Invalid SMILES", "C1CC">>
    /\ \A p \in FsPaths : fs[p] = Absent

\* What download_file keeps whether or not it ends: at most 3 GET attempts
\* per file type, one fallback from 'pdb' to 'cif' and no deeper call,
\* failed_pdbs only grows, and after a return a pdb_id that was not in
\* failed_pdbs is in it exactly when no GET attempt succeeded.
DownloadBounded ==
    /\ \A t \in FileTypes : dl.gets[t] <= 3
    /\ dl.fallbacks <= 1 /\ dl.depth <= 2
    /\ dl.failed0 \subseteq dl.failed_pdbs
    /\ (dl.pc = "returned" /\ dl.pdb_id \notin dl.failed0) =>
           (dl.pdb_id \in dl.failed_pdbs <=> ~dl.got)

\* C23: download_file always terminates, with at most 3 GET attempts per
\* file type and at most one fallback from 'pdb' to 'cif'; on return a
\* pdb_id not previously in failed_pdbs is in it if and only if no GET
\* attempt succeeded, and failed_pdbs never loses an element.
C23_DownloadTerminates ==
    /\ <>(dl.pc \in {"returned", "raised"})
    /\ []DownloadBounded

\* C24: for every directory listing and every pdb_id the lookup gives the
\* same answer on the sorted list (binary search) as on the set, so
\* --use_set never changes whether main skips or downloads a pdb_id.
C24_ListAgreesWithSet ==
    lk.pc = "done" => lk.by_list = lk.by_set

\* An id found by both, in a directory with several files, whose file name
\* carries it in upper case.
C24_Witness ==
    /\ lk.pc = "done"
    /\ lk.pdb_id = <<"2", "x", "y", "z">>
    /\ Cardinality(IdParts(lk.listing)) >= 3
    /\ lk.by_list /\ lk.by_set

====
